---- MODULE Spec2Model ----
(***************************************************************************)
(* HelloImageProject (src/main.py): read one colour photograph, bilateral  *)
(* denoise, unsharp mask, write result_<base>.png.                         *)
(*                                                                         *)
(* Two specifications:                                                     *)
(*   Spec        - one load of the module followed by one run of           *)
(*                 process_image (as the script, or called by an importer) *)
(*   SpecUnsharp - unsharp_mask as a function of image, amount and radius  *)
(*                                                                         *)
(* Modelling conventions                                                   *)
(*  - A path is a sequence of tokens: "/" and "." stand for themselves,    *)
(*    every other token is a run of characters holding neither of them.    *)
(*    os.path is the POSIX flavour (posixpath).                            *)
(*  - A grid cell holds one 8-bit channel component; the arithmetic of     *)
(*    unsharp_mask is elementwise, so a cell of the model is one element   *)
(*    of the numpy array.                                                  *)
(*  - cv2.bilateralFilter and cv2.GaussianBlur are library calls: they are *)
(*    modelled by their contract (a new array of the source's shape and    *)
(*    dtype), the element values being any value of the enumerated domain. *)
(*  - A gain amount is a rational <<num, den>>; the float32 arithmetic of  *)
(*    unsharp_mask is exact for the amounts enumerated (dyadic).           *)
(***************************************************************************)
EXTENDS Integers, Sequences, FiniteSets, TLC

(* ---------------- bounds of the enumeration ---------------- *)

\* an image of the model has at most MaxPixels cells (h * w <= MaxPixels)
MaxPixels == 2

\* largest blur radius handed to unsharp_mask in SpecUnsharp
MaxRadius == 3

(* ---------------- program constants ---------------- *)

DENOISE_D == 9
DENOISE_SIGMA_COLOR == 75
DENOISE_SIGMA_SPACE == 75
SHARPEN_RADIUS == 3
\* amount=1.0 of the call in process_image
SHARPEN_AMOUNT == <<1, 1>>

UINT8_MAX == 255

(* ---------------- paths (os.path, POSIX) ---------------- *)

SEP == "/"
EXTSEP == "."

\* index of the last occurrence of tok in p, 0 when absent (str.rfind + 1)
rfind(p, tok) ==
    LET hits == {i \in 1..Len(p) : p[i] = tok}
    IN  IF hits = {} THEN 0 ELSE CHOOSE i \in hits : \A j \in hits : j <= i

\* p[from:] of Python, 1-based: the tokens from index from on
Tail_from(p, from) == SubSeq(p, from, Len(p))

\* posixpath.basename: i = p.rfind('/') + 1; return p[i:]
basename(p) == Tail_from(p, rfind(p, SEP) + 1)

\* genericpath._splitext: the extension starts at the last dot, provided that
\* dot lies after the last separator and some token between the start of the
\* file name and the dot is not itself a dot (leading dots are skipped)
splitext(p) ==
    LET sepIndex == rfind(p, SEP)
        dotIndex == rfind(p, EXTSEP)
    IN  IF /\ dotIndex > sepIndex
           /\ \E k \in (sepIndex + 1)..(dotIndex - 1) : p[k] # EXTSEP
        THEN <<SubSeq(p, 1, dotIndex - 1), Tail_from(p, dotIndex)>>
        ELSE <<p, <<>>>>

\* posixpath.join(a, b) for two components
join(a, b) ==
    IF b # <<>> /\ b[1] = SEP THEN b
    ELSE IF a = <<>> \/ a[Len(a)] = SEP THEN a \o b
    ELSE a \o <<SEP>> \o b

\* posixpath.dirname: head = p[:i] with i = p.rfind('/') + 1, trailing
\* separators stripped unless head is all separators
RECURSIVE rstrip_sep(_)
rstrip_sep(p) ==
    IF p # <<>> /\ p[Len(p)] = SEP THEN rstrip_sep(SubSeq(p, 1, Len(p) - 1)) ELSE p

dirname(p) ==
    LET head == SubSeq(p, 1, rfind(p, SEP))
    IN  IF head # <<>> /\ \E k \in 1..Len(head) : head[k] # SEP
        THEN rstrip_sep(head) ELSE head

\* the directory holding main.py (os.path.abspath(__file__) is /app/main.py)
BASE_DIR == dirname(<<"/", "app", "/", "main", ".", "py">>)
IMAGES_DIR == join(BASE_DIR, <<"images">>)
OUTPUT_DIR == join(BASE_DIR, <<"output">>)
INPUT_IMAGE_NAME == <<"img-3", ".", "jpg">>
INPUT_PATH == join(IMAGES_DIR, INPUT_IMAGE_NAME)

\* lines 84-86: the output path process_image derives
out_name_of(path_in) ==
    LET base == splitext(basename(path_in))[1]
    IN  <<"result_">> \o base \o <<".", "png">>

out_path_of(path_in, path_out) == join(path_out, out_name_of(path_in))

(* ---------------- images ---------------- *)

Uint8 == 0..UINT8_MAX

\* the element values enumerated for images of more than one cell
Levels == {0, 128, UINT8_MAX}

Shapes == {s \in (1..MaxPixels) \X (1..MaxPixels) : s[1] * s[2] <= MaxPixels}

Cells(h, w) == (1..h) \X (1..w)

\* numpy arrays of dtype uint8 and shape (h, w) with elements in D
Grids(h, w, D) == [h : {h}, w : {w}, px : [Cells(h, w) -> D]]

ImagesOver(D) == UNION {Grids(s[1], s[2], D) : s \in Shapes}

\* img.shape[:2]
shape(g) == <<g.h, g.w>>

\* the value of a name bound to no array (None)
None == [h |-> 0, w |-> 0, px |-> <<>>]

(* ---------------- library calls ---------------- *)

\* cv2.bilateralFilter(src, d, sigmaColor, sigmaSpace): a new array of the
\* shape and dtype of src; src is not written
cv2_bilateralFilter(src, d, sigma_color, sigma_space, D) == Grids(src.h, src.w, D)

\* cv2.GaussianBlur(src, (0,0), sigmaX, sigmaY): the kernel size is derived
\* from sigma and must come out positive, so a sigma <= 0 is rejected with
\* cv2.error (the empty set of results here); otherwise a new array of the
\* shape and dtype of src
cv2_GaussianBlur(src, sigma, D) == IF sigma > 0 THEN Grids(src.h, src.w, D) ELSE {}

(* ---------------- unsharp_mask, lines 38-57 ---------------- *)

Min(a, b) == IF a <= b THEN a ELSE b
Max(a, b) == IF a >= b THEN a ELSE b

\* lines 51-54 for one element: result = img_f + amount * (img_f - blurred_f),
\* as the numerator of a fraction with denominator amount[2]
unsharp_value(o, b, amount) == o * amount[2] + amount[1] * (o - b)

\* a missing np.clip: the conversion to uint8 alone, which keeps the low byte
wrap_astype_uint8(v, den) == (v \div den) % (UINT8_MAX + 1)

\* line 56 for one element: np.clip(result, 0, 255).astype(np.uint8); the
\* element is v / den, astype drops the fractional part
clip_astype_uint8(v, den) == Min(Max(v, 0), UINT8_MAX * den) \div den

\* amount left out of line 54: result = img_f + mask
unsharp_pixel_unit_gain(o, b, amount) ==
    clip_astype_uint8(unsharp_value(o, b, <<1, 1>>), 1)

unsharp_pixel(o, b, amount) ==
    clip_astype_uint8(unsharp_value(o, b, amount), amount[2])

\* lines 51-57 on whole arrays, given the blurred copy of line 49
unsharp_combine(img, blurred, amount) ==
    [h |-> img.h, w |-> img.w,
     px |-> [c \in DOMAIN img.px |-> unsharp_pixel(img.px[c], blurred.px[c], amount)]]

(* ---------------- state ---------------- *)

VARIABLES
    mode,        \* "script": python main.py; "import": the module is imported
    pc,          \* position in the module / in process_image
    path_in,     \* first argument of process_image
    path_out,    \* second argument of process_image
    inKind,      \* what path_in references on disk
    inImage,     \* the array the bytes at path_in decode to (None if they do not)
    dirs,        \* state of the directories a run can write to
    heap,        \* the arrays allocated so far; a name holds an index, 0 is None
    img,         \* local img of process_image
    denoised,    \* local denoised
    sharpened,   \* local sharpened
    imwrite_ret, \* what cv2.imwrite returned (the code drops it)
    files,       \* files written by the run: [path, content]
    console,     \* lines printed, in order
    calls,       \* cv2 calls made, in order
    outcome,     \* "running", "returned" or the exception that ended the run
    u_pc,        \* SpecUnsharp: position in unsharp_mask
    u_img,       \* SpecUnsharp: argument img
    u_amount,    \* SpecUnsharp: argument amount
    u_radius,    \* SpecUnsharp: argument radius
    u_blurred,   \* SpecUnsharp: local blurred
    u_result     \* SpecUnsharp: the array returned

pvars == <<mode, pc, path_in, path_out, inKind, inImage, dirs, heap, img,
           denoised, sharpened, imwrite_ret, files, console, calls, outcome>>
uvars == <<u_pc, u_img, u_amount, u_radius, u_blurred, u_result>>
vars == <<pvars, uvars>>

(* ---------------- the environment of a run ---------------- *)

\* a second directory an importing caller may pass as path_out
OTHER_DIR == <<"out", "/">>

OutDirs == {OUTPUT_DIR, OTHER_DIR}

\* the state of a directory the run does not touch is left "absent";
\* "absent": no such entry, the parent is writable; "writable" / "readonly":
\* an existing directory; "blocked": no directory and none can be made (the
\* path is a regular file, or the parent is not writable)
DirStates == {"absent", "writable", "readonly", "blocked"}

\* paths an importing caller may pass as path_in
InputPaths ==
    { INPUT_PATH,
      join(IMAGES_DIR, <<"archive", ".", "tar", ".", "gz">>),
      join(IMAGES_DIR, <<".", "hidden">>),
      <<"photo">>,
      <<"scans", ".", "v2", "/", "raw">>,
      IMAGES_DIR \o <<SEP>> }

\* "missing": nothing there; "dir": a directory; "undecodable": a regular file
\* cv2.imread cannot decode (zero bytes, corrupt, unsupported, unreadable);
\* "image": a regular file that decodes
InKinds == {"missing", "dir", "undecodable", "image"}

\* a path with an empty last component names no regular file
KindsOf(p) == IF basename(p) = <<>> THEN {"missing", "dir"} ELSE InKinds

IsRegularFile(kind) == kind \in {"undecodable", "image"}

(* ---------------- Spec: module load and process_image ---------------- *)

PipelineIdle ==
    /\ mode = "none" /\ pc = "off" /\ path_in = <<>> /\ path_out = <<>>
    /\ inKind = "missing" /\ inImage = None
    /\ dirs = [d \in OutDirs |-> "absent"]
    /\ heap = <<>> /\ img = 0 /\ denoised = 0 /\ sharpened = 0
    /\ imwrite_ret = "unset" /\ files = {} /\ console = <<>> /\ calls = <<>>
    /\ outcome = "running"

UnsharpIdle ==
    /\ u_pc = "off" /\ u_img = None /\ u_amount = <<0, 1>> /\ u_radius = 0
    /\ u_blurred = None /\ u_result = None

Init ==
    /\ mode \in {"script", "import"}
    /\ pc = "load"
    /\ path_in \in (IF mode = "script" THEN {INPUT_PATH} ELSE InputPaths)
    /\ path_out \in (IF mode = "script" THEN {OUTPUT_DIR} ELSE OutDirs)
    /\ inKind \in KindsOf(path_in)
    /\ inImage \in (IF inKind = "image" THEN ImagesOver(Levels) ELSE {None})
    /\ dirs \in {f \in [OutDirs -> DirStates] :
                    \A d \in OutDirs \ {OUTPUT_DIR, path_out} : f[d] = "absent"}
    /\ heap = <<>> /\ img = 0 /\ denoised = 0 /\ sharpened = 0
    /\ imwrite_ret = "unset" /\ files = {} /\ console = <<>> /\ calls = <<>>
    /\ outcome = "running"
    /\ UnsharpIdle

Raise(exc) == pc' = "raised" /\ outcome' = exc

\* lines 18-25: os.makedirs(OUTPUT_DIR, exist_ok=True) runs when the module is
\* loaded, as a script or by import
ModuleSetup ==
    /\ pc = "load"
    /\ IF dirs[OUTPUT_DIR] = "blocked"
       THEN /\ Raise("OSError")
            /\ UNCHANGED dirs
       ELSE /\ dirs' = [dirs EXCEPT ![OUTPUT_DIR] =
                          IF @ = "absent" THEN "writable" ELSE @]
            /\ pc' = IF mode = "script" THEN "main" ELSE "imported"
            /\ UNCHANGED outcome
    /\ UNCHANGED <<mode, path_in, path_out, inKind, inImage, heap, img, denoised,
                   sharpened, imwrite_ret, files, console, calls, uvars>>

\* lines 90-92: the banner, then process_image(INPUT_PATH, OUTPUT_DIR)
Main ==
    /\ pc = "main"
    /\ console' = Append(console, <<"banner">>)
    /\ pc' = "isfile"
    /\ UNCHANGED <<mode, path_in, path_out, inKind, inImage, dirs, heap, img,
                   denoised, sharpened, imwrite_ret, files, calls, outcome, uvars>>

\* an importing caller calls process_image(path_in, path_out)
ImportCall ==
    /\ pc = "imported"
    /\ pc' = "isfile"
    /\ UNCHANGED <<mode, path_in, path_out, inKind, inImage, dirs, heap, img,
                   denoised, sharpened, imwrite_ret, files, console, calls,
                   outcome, uvars>>

\* os.path.exists in place of os.path.isfile: a directory passes the check
CheckIsFile_exists ==
    /\ pc = "isfile"
    /\ IF inKind = "missing" THEN Raise("FileNotFoundError")
       ELSE pc' = "imread" /\ UNCHANGED outcome
    /\ UNCHANGED <<mode, path_in, path_out, inKind, inImage, dirs, heap, img,
                   denoised, sharpened, imwrite_ret, files, console, calls, uvars>>

\* lines 66-67
CheckIsFile ==
    /\ pc = "isfile"
    /\ IF ~IsRegularFile(inKind) THEN Raise("FileNotFoundError")
       ELSE pc' = "imread" /\ UNCHANGED outcome
    /\ UNCHANGED <<mode, path_in, path_out, inKind, inImage, dirs, heap, img,
                   denoised, sharpened, imwrite_ret, files, console, calls, uvars>>

\* the decode failure reported with the exception of the missing file
Imread_same_error ==
    /\ pc = "imread"
    /\ calls' = Append(calls, "imread")
    /\ IF inKind = "image"
       THEN /\ heap' = Append(heap, inImage)
            /\ img' = Len(heap) + 1
            /\ pc' = "info"
            /\ UNCHANGED outcome
       ELSE /\ Raise("FileNotFoundError")
            /\ UNCHANGED <<heap, img>>
    /\ UNCHANGED <<mode, path_in, path_out, inKind, inImage, dirs, denoised,
                   sharpened, imwrite_ret, files, console, uvars>>

\* lines 69-71: cv2.imread gives None for bytes it cannot decode
Imread ==
    /\ pc = "imread"
    /\ calls' = Append(calls, "imread")
    /\ IF inKind = "image"
       THEN /\ heap' = Append(heap, inImage)
            /\ img' = Len(heap) + 1
            /\ pc' = "info"
            /\ UNCHANGED outcome
       ELSE /\ Raise("ValueError")
            /\ UNCHANGED <<heap, img>>
    /\ UNCHANGED <<mode, path_in, path_out, inKind, inImage, dirs, denoised,
                   sharpened, imwrite_ret, files, console, uvars>>

\* lines 74-75: h, w = img.shape[:2]; the line shows {w}x{h} and img.dtype
PrintInfo ==
    /\ pc = "info"
    /\ LET hw == shape(heap[img])
       IN  console' = Append(console, <<"resolution", hw[2], hw[1], "uint8">>)
    /\ pc' = "denoise"
    /\ UNCHANGED <<mode, path_in, path_out, inKind, inImage, dirs, heap, img,
                   denoised, sharpened, imwrite_ret, files, calls, outcome, uvars>>

\* bilateral_denoise, lines 27-36, on the array a name holds
bilateral_denoise(src, d, sigma_color, sigma_space) ==
    cv2_bilateralFilter(src, d, sigma_color, sigma_space, Levels)

\* the filter writing its result into the source array (dst=img)
BilateralDenoise_in_place ==
    /\ pc = "denoise"
    /\ \E out \in bilateral_denoise(heap[img], DENOISE_D, DENOISE_SIGMA_COLOR,
                                    DENOISE_SIGMA_SPACE) :
          /\ heap' = [heap EXCEPT ![img] = out]
          /\ denoised' = img
    /\ calls' = Append(calls, "bilateralFilter")
    /\ pc' = "sharpen"
    /\ UNCHANGED <<mode, path_in, path_out, inKind, inImage, dirs, img, sharpened,
                   imwrite_ret, files, console, outcome, uvars>>

\* line 78: denoised = bilateral_denoise(img, d=9, sigma_color=75, sigma_space=75)
BilateralDenoise ==
    /\ pc = "denoise"
    /\ \E out \in bilateral_denoise(heap[img], DENOISE_D, DENOISE_SIGMA_COLOR,
                                    DENOISE_SIGMA_SPACE) :
          /\ heap' = Append(heap, out)
          /\ denoised' = Len(heap) + 1
    /\ calls' = Append(calls, "bilateralFilter")
    /\ pc' = "sharpen"
    /\ UNCHANGED <<mode, path_in, path_out, inKind, inImage, dirs, img, sharpened,
                   imwrite_ret, files, console, outcome, uvars>>

\* a blur that keeps only the rows the kernel covers fully: one row fewer
unsharp_mask_cropped(src, amount, radius, D) ==
    LET hh == IF src.h > 1 THEN src.h - 1 ELSE src.h
        cut == [h |-> hh, w |-> src.w,
                px |-> [c \in Cells(hh, src.w) |-> src.px[c]]]
    IN  {unsharp_combine(cut, blurred, amount) : blurred \in cv2_GaussianBlur(cut, radius, D)}

\* unsharp_mask, lines 38-57: the arrays it can return, one per blurred copy
\* the library can produce; img_f, blurred_f, mask and result are new arrays
\* and the argument is not written
unsharp_mask(src, amount, radius, D) ==
    {unsharp_combine(src, blurred, amount) : blurred \in cv2_GaussianBlur(src, radius, D)}

\* the sharpener fed the decoded image instead of the denoised one
UnsharpMask_of_img ==
    /\ pc = "sharpen"
    /\ \E out \in unsharp_mask(heap[img], SHARPEN_AMOUNT, SHARPEN_RADIUS, Levels) :
          /\ heap' = Append(heap, out)
          /\ sharpened' = Len(heap) + 1
    /\ calls' = Append(calls, "GaussianBlur")
    /\ pc' = "write"
    /\ UNCHANGED <<mode, path_in, path_out, inKind, inImage, dirs, img, denoised,
                   imwrite_ret, files, console, outcome, uvars>>

\* line 81: sharpened = unsharp_mask(denoised, amount=1.0, radius=3)
UnsharpMask ==
    /\ pc = "sharpen"
    /\ \E out \in unsharp_mask(heap[denoised], SHARPEN_AMOUNT, SHARPEN_RADIUS, Levels) :
          /\ heap' = Append(heap, out)
          /\ sharpened' = Len(heap) + 1
    /\ calls' = Append(calls, "GaussianBlur")
    /\ pc' = "write"
    /\ UNCHANGED <<mode, path_in, path_out, inKind, inImage, dirs, img, denoised,
                   imwrite_ret, files, console, outcome, uvars>>

\* cv2.imwrite(filename, img): encodes by the extension (.png, lossless) and
\* returns True; when the file cannot be opened for writing it returns False
\* and raises nothing
cv2_imwrite_ok(dir_state) == dir_state = "writable"

\* lines 84-87: the value cv2.imwrite returns is not looked at
Imwrite ==
    /\ pc = "write"
    /\ calls' = Append(calls, "imwrite")
    /\ IF cv2_imwrite_ok(dirs[path_out])
       THEN /\ files' = files \cup {[path |-> out_path_of(path_in, path_out),
                                     content |-> heap[sharpened]]}
            /\ imwrite_ret' = "True"
       ELSE /\ imwrite_ret' = "False"
            /\ UNCHANGED files
    /\ pc' = "print_done"
    /\ UNCHANGED <<mode, path_in, path_out, inKind, inImage, dirs, heap, img,
                   denoised, sharpened, console, outcome, uvars>>

\* line 88, then the return of process_image
PrintDone ==
    /\ pc = "print_done"
    /\ console' = Append(console, <<"saved", out_path_of(path_in, path_out)>>)
    /\ pc' = "returned"
    /\ outcome' = "returned"
    /\ UNCHANGED <<mode, path_in, path_out, inKind, inImage, dirs, heap, img,
                   denoised, sharpened, imwrite_ret, files, calls, uvars>>

Next ==
    \/ ModuleSetup
    \/ Main
    \/ ImportCall
    \/ CheckIsFile
    \/ Imread
    \/ PrintInfo
    \/ BilateralDenoise
    \/ UnsharpMask
    \/ Imwrite
    \/ PrintDone

Spec == Init /\ [][Next]_vars

\* the status the interpreter exits with when the script run has ended
ExitStatus == IF outcome = "returned" THEN 0 ELSE 1

(* ---------------- SpecUnsharp: unsharp_mask alone ---------------- *)

\* gains handed to unsharp_mask: 0, 0.5, 1.0 (the default and the one
\* process_image uses), 1.5 and 2.0
Amounts == {<<0, 1>>, <<1, 2>>, <<1, 1>>, <<3, 2>>, <<2, 1>>}

Radii == 0..MaxRadius

\* one-cell images take every 8-bit value, larger ones the values of Levels
UnsharpDomain(g) == IF g.h * g.w = 1 THEN Uint8 ELSE Levels

InitUnsharp ==
    /\ PipelineIdle
    /\ u_pc = "blur"
    /\ u_img \in Grids(1, 1, Uint8) \cup ImagesOver(Levels)
    /\ u_amount \in Amounts
    /\ u_radius \in Radii
    /\ u_blurred = None
    /\ u_result = None

\* line 49
U_GaussianBlur ==
    /\ u_pc = "blur"
    /\ LET outs == cv2_GaussianBlur(u_img, u_radius, UnsharpDomain(u_img))
       IN  IF outs = {}
           THEN u_pc' = "raised" /\ UNCHANGED u_blurred
           ELSE u_pc' = "combine" /\ u_blurred' \in outs
    /\ UNCHANGED <<u_img, u_amount, u_radius, u_result, pvars>>

\* lines 51-57
U_Combine ==
    /\ u_pc = "combine"
    /\ u_result' = unsharp_combine(u_img, u_blurred, u_amount)
    /\ u_pc' = "returned"
    /\ UNCHANGED <<u_img, u_amount, u_radius, u_blurred, pvars>>

NextUnsharp == U_GaussianBlur \/ U_Combine

SpecUnsharp == InitUnsharp /\ [][NextUnsharp]_vars

(* ---------------- properties ---------------- *)

\* process_image has been entered and has passed the check of lines 66-67
PastIsFile == pc \notin {"load", "main", "imported", "isfile"} /\ outcome # "OSError"

\* process_image has passed lines 69-71
PastImread == PastIsFile /\ pc # "imread"

Ended == pc \in {"returned", "raised"}

LineKinds(lines) == [i \in 1..Len(lines) |-> lines[i][1]]

Printed(kind) == \E i \in 1..Len(console) : console[i][1] = kind

\* C1: a run of process_image whose path_in is no existing regular file ends
\* with FileNotFoundError before any decode, denoise, sharpen or write call,
\* and writes no file.
C1_MissingInput ==
    (PastIsFile /\ ~IsRegularFile(inKind)) =>
        /\ pc = "raised" /\ outcome = "FileNotFoundError"
        /\ calls = <<>> /\ heap = <<>>
        /\ files = {} /\ imwrite_ret = "unset"

C1_Witness ==
    /\ pc = "raised" /\ outcome = "FileNotFoundError"
    /\ inKind = "dir" /\ dirs[path_out] = "writable"

\* C2: a run whose path_in is a regular file that does not decode ends with
\* ValueError (not FileNotFoundError) after the decode attempt alone: no
\* denoise, sharpen or write call, and no file written.
C2_DecodeFailure ==
    (PastImread /\ inKind = "undecodable") =>
        /\ pc = "raised" /\ outcome = "ValueError"
        /\ outcome # "FileNotFoundError"
        /\ calls = <<"imread">> /\ heap = <<>>
        /\ files = {} /\ imwrite_ret = "unset"

C2_Witness ==
    /\ pc = "raised" /\ outcome = "ValueError"
    /\ inKind = "undecodable" /\ dirs[path_out] = "writable"

\* C3: when the write step fails, the run ends in an error with a non-zero
\* status and the line reporting the output path is not printed.
C3_WriteFailureIsFatal ==
    (imwrite_ret = "False") =>
        /\ ~Printed("saved")
        /\ Ended => (outcome # "returned" /\ ExitStatus # 0)

\* C4: the stages run in the order imread, bilateral filter, unsharp mask,
\* imwrite, each at most once; the write happens only after a successful load
\* and both transforms; the sharpener's input is the denoiser's output and the
\* written image is the sharpener's output; one image per run.
StageOrder == <<"imread", "bilateralFilter", "GaussianBlur", "imwrite">>

C4_StagesInOrder ==
    /\ Len(calls) <= Len(StageOrder)
    /\ calls = SubSeq(StageOrder, 1, Len(calls))
    /\ Len(calls) >= 2 => inKind = "image"
    /\ (img # 0) = (inKind = "image" /\ Len(calls) >= 1)
    /\ (denoised # 0) = (Len(calls) >= 2)
    /\ (sharpened # 0) = (Len(calls) >= 3)
    /\ img # 0 => heap[img] = inImage
    /\ denoised # 0 => shape(heap[denoised]) = shape(heap[img])
    /\ sharpened # 0 =>
          /\ shape(heap[sharpened]) = shape(heap[denoised])
          /\ \A c \in DOMAIN heap[denoised].px :
                \E b \in Levels :
                   heap[sharpened].px[c] =
                      unsharp_pixel(heap[denoised].px[c], b, SHARPEN_AMOUNT)
    /\ files # {} => Len(calls) = 4
    /\ \A f \in files : f.content = heap[sharpened]
    /\ Cardinality(files) <= 1
    /\ Len(heap) <= 3

C4_Witness ==
    /\ pc = "returned" /\ files # {}
    /\ heap[denoised] # heap[img]
    /\ heap[sharpened] # heap[denoised]

(* unsharp_mask, element by element (SpecUnsharp) *)

\* numerator and denominator of o + amount * (o - b) at cell c
ValueAt(c) == unsharp_value(u_img.px[c], u_blurred.px[c], u_amount)
Den == u_amount[2]

\* C5 as stated: every element of the result is the value
\* o + amount * (o - b) clipped to [0, 255].
C5_ClippedValueExactly ==
    u_pc = "returned" =>
        \A c \in DOMAIN u_img.px :
            u_result.px[c] * Den = Min(Max(ValueAt(c), 0), UINT8_MAX * Den)

\* C5, amended: every element of the result lies in 0..255; it is 0 when
\* o + amount * (o - b) is below 0, 255 when it is above 255 (never the
\* value modulo 256), and otherwise the value with its fractional part
\* dropped, which is the value itself whenever that is an integer.
C5_ClipThenTruncate ==
    u_pc = "returned" =>
        /\ shape(u_result) = shape(u_img)
        /\ \A c \in DOMAIN u_img.px :
              LET r == u_result.px[c]
                  v == ValueAt(c)
              IN  /\ r \in 0..UINT8_MAX
                  /\ v < 0 => r = 0
                  /\ v > UINT8_MAX * Den => r = UINT8_MAX
                  /\ (0 <= v /\ v <= UINT8_MAX * Den) =>
                        (r * Den <= v /\ v < (r + 1) * Den)

\* a returned two-cell image with one element clipped from below and the
\* other from above
C5_Witness ==
    /\ u_pc = "returned"
    /\ \E c \in DOMAIN u_img.px : ValueAt(c) < 0 /\ u_result.px[c] = 0
    /\ \E c \in DOMAIN u_img.px :
          ValueAt(c) > UINT8_MAX * Den /\ u_result.px[c] = UINT8_MAX

\* C6: with amount = 0 unsharp_mask returns an image equal to its input,
\* element by element, whatever the radius and the blurred copy.
C6_ZeroAmountIsIdentity ==
    (u_pc = "returned" /\ u_amount[1] = 0) =>
        /\ shape(u_result) = shape(u_img)
        /\ \A c \in DOMAIN u_img.px : u_result.px[c] = u_img.px[c]

C6_Witness ==
    /\ u_pc = "returned" /\ u_amount[1] = 0
    /\ u_img.h * u_img.w > 1
    /\ \A c \in DOMAIN u_img.px : u_blurred.px[c] # u_img.px[c]

(* the pipeline (Spec) *)

Live == {r \in {img, denoised, sharpened} : r # 0}

\* C7: the decoded image, the denoised image, the sharpened image and the
\* written image all have the height and width of the decoded file.
C7_ShapePreserved ==
    /\ \A r \in Live : shape(heap[r]) = shape(inImage)
    /\ \A f \in files : shape(f.content) = shape(inImage)

C7_Witness ==
    /\ pc = "returned" /\ files # {}
    /\ inImage.h = 2 /\ inImage.w = 1
    /\ heap[sharpened] # heap[img]

\* the names expected for the inputs enumerated, written out by hand
ExpectedBase(p) ==
    CASE p = INPUT_PATH -> <<"img-3">>
      [] p = join(IMAGES_DIR, <<"archive", ".", "tar", ".", "gz">>) -> <<"archive", ".", "tar">>
      [] p = join(IMAGES_DIR, <<".", "hidden">>) -> <<".", "hidden">>
      [] p = <<"photo">> -> <<"photo">>
      [] p = <<"scans", ".", "v2", "/", "raw">> -> <<"raw">>

ExpectedDirPrefix(d) ==
    CASE d = OUTPUT_DIR -> <<"/", "app", "/", "output", "/">>
      [] d = OTHER_DIR -> <<"out", "/">>

ExpectedOutPath ==
    ExpectedDirPrefix(path_out) \o <<"result_">> \o ExpectedBase(path_in) \o <<".", "png">>

DirExists(d) == dirs[d] \in {"writable", "readonly"}

\* C8: every run that loaded its input has, when it ends, written exactly
\* one file, path_out/result_<base>.png (<base> the input's file name without
\* directory and last extension), and path_out existed at the write.
C8_AlwaysOneFile ==
    (Ended /\ PastImread /\ inKind = "image") =>
        /\ Cardinality(files) = 1
        /\ \A f \in files : f.path = ExpectedOutPath
        /\ DirExists(path_out)

\* What the code does guarantee about the write: it is attempted once, at
\* path_out/result_<base>.png; if cv2.imwrite returns True exactly that file
\* exists afterwards and path_out is a directory; if it returns False nothing
\* is written; OUTPUT_DIR, made at module load, exists at the write.
C8_OneFileWhenWriteSucceeds ==
    /\ imwrite_ret = "True" =>
          /\ files = {[path |-> ExpectedOutPath, content |-> heap[sharpened]]}
          /\ DirExists(path_out)
    /\ imwrite_ret # "True" => files = {}
    /\ (Ended /\ PastImread /\ inKind = "image") => imwrite_ret # "unset"
    /\ (pc = "write" /\ path_out = OUTPUT_DIR) => DirExists(path_out)

C8_Witness ==
    /\ pc = "returned" /\ imwrite_ret = "True"
    /\ path_in = join(IMAGES_DIR, <<"archive", ".", "tar", ".", "gz">>)
    /\ path_out = OTHER_DIR
    /\ Cardinality(files) = 1

IsInfoLine(line) == line[1] # "banner"

\* C9: a successful run prints exactly two informational lines, the
\* resolution line (<width>x<height>, dtype) after the decode and before any
\* transform, then the output-path line after the write; a failing run never
\* prints the output-path line. (The banner of line 91 is not counted.)
C9_ConsoleLines ==
    /\ (pc = "returned" /\ imwrite_ret = "True") =>
          /\ LineKinds(SelectSeq(console, IsInfoLine)) = <<"resolution", "saved">>
          /\ \E i \in 1..Len(console) :
                console[i] = <<"resolution", inImage.w, inImage.h, "uint8">>
    /\ Printed("resolution") => img # 0
    /\ denoised # 0 => Printed("resolution")
    /\ Printed("saved") => Len(calls) = 4
    /\ (pc = "raised" \/ imwrite_ret = "False") => ~Printed("saved")

\* C10: bilateral_denoise leaves the decoded array as it was and returns a
\* new array; unsharp_mask leaves the denoised (and the decoded) array as it
\* was and returns a new array; no two of img, denoised, sharpened are the
\* same array.
C10_Step ==
    /\ (pc = "denoise" /\ pc' = "sharpen") =>
          /\ heap'[img'] = heap[img] /\ img' = img
          /\ denoised' \notin {0, img'}
    /\ (pc = "sharpen" /\ pc' = "write") =>
          /\ heap'[img'] = heap[img] /\ img' = img
          /\ heap'[denoised'] = heap[denoised] /\ denoised' = denoised
          /\ sharpened' \notin {0, img', denoised'}

C10_StagesDoNotWriteInputs == [][C10_Step]_vars

C10_Witness ==
    /\ pc = "write"
    /\ Cardinality({img, denoised, sharpened}) = 3
    /\ heap[img] = inImage
    /\ heap[denoised] # heap[img]
    /\ heap[sharpened] # heap[denoised]

====
